---- MODULE Spec2Model ----
\* Model of 06-Shading/main.cpp: the window/GL start-up, the offscreen HDR
\* framebuffer life cycle (createFramebuffer / shutDown), the GLFW callbacks
\* and the per-frame sequence of renderScene inside mainLoop.
EXTENDS Integers, Sequences, FiniteSets, TLC

\* ------------------------------------------------------------------ constants
DefaultWidth == 800
DefaultHeight == 600
MAX_INSTANCES == 1024
MSAA_SAMPLES == 4
DefaultNumCubes == 10
NumTextures == 8
DefaultFov == 45
expectedUboSize == 65536

\* ------------------------------------------------------------------ bounds
\* resize events deliver sizes in 0..MaxDim (0 is what a minimised window reports)
MaxDim == 1
\* renderbuffer names the GL may hand out beyond the one the program needs
ExtraNames == 1

\* texture and framebuffer names are handed out lowest first; renderbuffer
\* names, a name space of their own, are any of RbNames
TexNames == 1..(NumTextures + 2)
RbNames == 1..(1 + ExtraNames)
FbNames == {1}
ResizeSizes == {<<w, h>> : w \in 0..MaxDim, h \in 0..MaxDim}
\* numCubes is a compile-time constant; the builds considered are the one of
\* the repository and one that exceeds the instance capacity
NumCubesBuilds == {DefaultNumCubes, MAX_INSTANCES + 1}
\* GL_MAX_UNIFORM_BLOCK_SIZE values an implementation may report
MaxUboSizes == {16384, expectedUboSize}
\* cursor positions a mouse event may deliver
MousePositions == {<<0, 0>>, <<1, 1>>}
KeyActions == {"press", "release", "repeat"}
ToggleKeys == {"ESCAPE", "F1", "F2", "F3", "F4", "F5", "F6", "W"}
\* outcomes of a GL call made through an entry point that was never loaded
UBOutcomes == {"crash", "continue"}

NoObj == [target |-> "none", w |-> 0, h |-> 0, samples |-> 0]
NoFb == [live |-> FALSE, color |-> 0, depth |-> 0]

VARIABLES
  pc,             \* position of main()
  numCubes,       \* const int numCubes
  glfwUp,         \* glfwInit succeeded and glfwTerminate not yet called
  window,         \* mainWindow.handle != nullptr (window and GL context exist)
  glLoaded,       \* gladLoadGL succeeded: the GL entry points are callable
  width, height,  \* mainWindow.width / height
  msaaLevel, vsync, depthTest, wireframe, tonemapping, fov,
  shouldClose,    \* the window's close flag
  camera,         \* projection parameters last handed to camera.SetProjection
  fbo, renderTarget, depthStencil,   \* the program's handles
  tex, rb, fb,    \* GL object tables: textures, renderbuffers, framebuffers
  gl,             \* GL pipeline state: bindings and enables
  programs,       \* shader programs exist
  geom,           \* vao, meshes, instancing buffer, transform UBO exist
  loadedTextures, \* GLuint loadedTextures[NumTextures]
  cubePositions,  \* std::vector<glm::vec3> cubePositions
  transformBlock, \* contents of the transform UBO
  staging,        \* indices of instanceData written by the last update
  calls,          \* API calls issued by the operation in progress / last run
  fbReport,       \* last createFramebuffer printed "Failed to create framebuffer"
  shutDowns,      \* number of times shutDown was entered
  exitCode,       \* return value of main
  leaked,         \* GL objects still alive when the context was destroyed
  failure,        \* the fatal initialisation error that occurred, if any
  mouse,          \* mouseStatus
  runB            \* a second run fed the same events except for F6 presses:
                  \* its tonemapping flag, its GL pipeline state, its calls

vars == <<pc, numCubes, glfwUp, window, glLoaded, width, height, msaaLevel, vsync,
          depthTest, wireframe, tonemapping, fov, shouldClose, camera, fbo,
          renderTarget, depthStencil, tex, rb, fb, gl, programs, geom,
          loadedTextures, cubePositions, transformBlock, staging, calls,
          fbReport, shutDowns, exitCode, leaked, failure, mouse, runB>>

\* variables no callback touches
startVars == <<numCubes, glfwUp, window, glLoaded, programs, geom, loadedTextures,
               cubePositions, transformBlock, staging, shutDowns, exitCode, leaked,
               failure>>

\* ------------------------------------------------------------------ helpers
\* a clear or a draw, with the pipeline state in force when it is issued
Call(op, args, p) == [op |-> op, args |-> args, pipe |-> p]

NoPipe == [drawFbo |-> 0, readFbo |-> 0, depthTest |-> FALSE, multisample |-> FALSE,
           polyLine |-> FALSE, cullFace |-> FALSE, viewport |-> <<0, 0>>]

\* any other API call: its result does not depend on the pipeline state
Op(op, args) == Call(op, args, NoPipe)

B2I(b) == IF b THEN 1 ELSE 0

Min(S) == CHOOSE x \in S : \A y \in S : x <= y

glIsTexture(t, n) == n \in DOMAIN t /\ t[n].target # "none"

glIsRenderbuffer(r, n) == n \in DOMAIN r /\ r[n].target # "none"

UnusedTex(t) == {n \in DOMAIN t : t[n].target = "none"}

UnusedRb(r) == {n \in DOMAIN r : r[n].target = "none"}

UnusedFb(f) == {n \in DOMAIN f : ~f[n].live}

\* a faulty variant of DeleteTex: the name is forgotten but the texture is not deleted
DeleteTexLeaks(t, n) == t

\* glDeleteTextures / glDeleteRenderbuffers: unknown names and 0 are ignored
DeleteTex(t, n) == IF n \in DOMAIN t THEN [t EXCEPT ![n] = NoObj] ELSE t

DeleteRb(r, n) == IF n \in DOMAIN r THEN [r EXCEPT ![n] = NoObj] ELSE r

\* a faulty variant of ColorStorage: the colour texture is always single-sampled
ColorStorageSingle(w, h, MSAA) == [target |-> "2D", w |-> w, h |-> h, samples |-> 1]

\* glTexImage2DMultisample / glTexImage2D of createFramebuffer
ColorStorage(w, h, MSAA) ==
  IF MSAA > 1 THEN [target |-> "2DMS", w |-> w, h |-> h, samples |-> MSAA]
  ELSE [target |-> "2D", w |-> w, h |-> h, samples |-> 1]

\* glRenderbufferStorageMultisample / glRenderbufferStorage of createFramebuffer
DepthStorage(w, h, MSAA) ==
  IF MSAA > 1 THEN [target |-> "RB", w |-> w, h |-> h, samples |-> MSAA]
  ELSE [target |-> "RB", w |-> w, h |-> h, samples |-> 1]

\* glCheckFramebufferStatus: attachments of zero size or of different sample
\* counts make the framebuffer incomplete
FramebufferComplete(c, d) ==
  /\ c.w > 0 /\ c.h > 0 /\ d.w > 0 /\ d.h > 0
  /\ c.w = d.w /\ c.h = d.h /\ c.samples = d.samples

\* a faulty variant of NextMsaaLevel: F1 only ever switches multisampling off
NextMsaaLevelOff(level) == 1

\* the F1 branch of keyCallback
NextMsaaLevel(level) == IF level > 1 THEN 1 ELSE MSAA_SAMPLES

BindFb(p, n) == [p EXCEPT !.drawFbo = n, !.readFbo = n]

\* createFramebuffer ends with the window's framebuffer bound
FramebufferGl(g) == BindFb(g, 0)

\* ------------------------------------------------------------------ createFramebuffer
\* The outcomes of createFramebuffer(w, h, MSAA) entered with the GL pipeline
\* state g: one per choice of the names the GL hands out.
CreateFramebuffer(g, w, h, MSAA) ==
  LET hadRt == glIsTexture(tex, renderTarget)
      tex1 == IF hadRt THEN DeleteTex(tex, renderTarget) ELSE tex
      rt1 == IF hadRt THEN 0 ELSE renderTarget
      hadDs == glIsRenderbuffer(rb, depthStencil)
      rb1 == IF hadDs THEN DeleteRb(rb, depthStencil) ELSE rb
      ds1 == IF hadDs THEN 0 ELSE depthStencil
      color == ColorStorage(w, h, MSAA)
      depth == DepthStorage(w, h, MSAA)
      ok == FramebufferComplete(color, depth)
      Build(f, t, d) ==
           [fbo |-> f, renderTarget |-> t, depthStencil |-> d,
            tex |-> [tex1 EXCEPT ![t] = color],
            rb |-> [rb1 EXCEPT ![d] = depth],
            fb |-> [fb EXCEPT ![f] = [live |-> TRUE, color |-> t, depth |-> d]],
            gl |-> FramebufferGl(g),
            report |-> ~ok,
            calls |->
                 <<Op("glBindFramebuffer", <<0>>)>>
              \o (IF fbo = 0 THEN <<Op("glGenFramebuffers", <<f>>)>> ELSE <<>>)
              \o <<Op("glBindFramebuffer", <<f>>)>>
              \o (IF hadRt THEN <<Op("glDeleteTextures", <<renderTarget>>)>> ELSE <<>>)
              \o (IF rt1 = 0 THEN <<Op("glGenTextures", <<t>>)>> ELSE <<>>)
              \o <<Op("texStorage", <<t, color.w, color.h, color.samples>>),
                   Op("glFramebufferTexture2D", <<t>>)>>
              \o (IF hadDs THEN <<Op("glDeleteRenderbuffers", <<depthStencil>>)>> ELSE <<>>)
              \o (IF ds1 = 0 THEN <<Op("glGenRenderbuffers", <<d>>)>> ELSE <<>>)
              \o <<Op("rbStorage", <<d, depth.w, depth.h, depth.samples>>),
                   Op("glFramebufferRenderbuffer", <<d>>),
                   Op("glCheckFramebufferStatus", <<B2I(ok)>>)>>
              \o (IF ok THEN <<>> ELSE <<Op("printf", <<>>)>>)
              \o <<Op("glBindFramebuffer", <<0>>)>>]
  IN {Build(n[1], n[2], n[3]) :
        n \in (IF fbo = 0 THEN {Min(UnusedFb(fb))} ELSE {fbo})
              \X (IF rt1 = 0 THEN {Min(UnusedTex(tex1))} ELSE {rt1})
              \X (IF ds1 = 0 THEN UnusedRb(rb1) ELSE {ds1})}

\* the assignments createFramebuffer makes, for the outcome r
FramebufferBecomes(r, prefix) ==
  /\ fbo' = r.fbo /\ renderTarget' = r.renderTarget /\ depthStencil' = r.depthStencil
  /\ tex' = r.tex /\ rb' = r.rb /\ fb' = r.fb /\ gl' = r.gl
  /\ fbReport' = r.report
  /\ calls' = prefix \o r.calls

fbVars == <<fbo, renderTarget, depthStencil, tex, rb, fb, fbReport>>

\* ------------------------------------------------------------------ callbacks
SetProjection(c, f, w, h) == [c EXCEPT !.fov = f, !.w = w, !.h = h]

\* resizeCallback(window, w, h), entered with the GL pipeline state g
ResizeCallback(w, h, g) ==
  LET g1 == [g EXCEPT !.viewport = <<w, h>>]
  IN /\ width' = w
     /\ height' = h
     /\ camera' = SetProjection(camera, fov, w, h)
     /\ \E r \in CreateFramebuffer(g1, w, h, msaaLevel) :
          FramebufferBecomes(r, <<Op("glViewport", <<w, h>>)>>)

\* mouseMoveCallback(window, x, y)
MouseMoveCallback(x, y) ==
  /\ mouse' = [mouse EXCEPT !.x = x, !.y = y]
  /\ calls' = <<>>

IsPress(action) == action = "press"

\* the conditions of the two zoom branches of keyCallback
ZoomInKey(key, action) == key = "KP_ADD" \/ (key = "EQUAL" /\ IsPress(action))

ZoomOutKey(key, action) == key = "KP_SUBTRACT" \/ (key = "MINUS" /\ IsPress(action))

\* a faulty variant of FovAfter: the upper clamp puts the field of view at 180
FovAfterClampHigh(f, key, action) ==
  LET f1 == IF ZoomInKey(key, action) THEN (IF f - 1 < 5 THEN 5 ELSE f - 1) ELSE f
      f2 == IF ZoomOutKey(key, action) THEN (IF f1 + 1 >= 180 THEN 180 ELSE f1 + 1) ELSE f1
  IN IF key = "BACKSPACE" /\ IsPress(action) THEN DefaultFov ELSE f2

\* the three field-of-view branches of keyCallback
FovAfter(f, key, action) ==
  LET f1 == IF ZoomInKey(key, action) THEN (IF f - 1 < 5 THEN 5 ELSE f - 1) ELSE f
      f2 == IF ZoomOutKey(key, action) THEN (IF f1 + 1 >= 180 THEN 179 ELSE f1 + 1) ELSE f1
  IN IF key = "BACKSPACE" /\ IsPress(action) THEN DefaultFov ELSE f2

\* the F3 branch of keyCallback: glIsEnabled / glDisable / glEnable
CullAfterKey(p, key, action) ==
  IF key = "F3" /\ IsPress(action) THEN [p EXCEPT !.cullFace = ~p.cullFace] ELSE p

\* the GL pipeline state keyCallback leaves
GlAfterKey(p, key, action) ==
  IF key = "F1" /\ IsPress(action) THEN FramebufferGl(CullAfterKey(p, key, action))
  ELSE CullAfterKey(p, key, action)

\* keyCallback(window, key, scancode, action, mods)
KeyCallback(key, action) ==
  LET pressed(k) == key = k /\ IsPress(action)
      g1 == CullAfterKey(gl, key, action)
  IN /\ shouldClose' = (shouldClose \/ pressed("ESCAPE"))
     /\ msaaLevel' = IF pressed("F1") THEN NextMsaaLevel(msaaLevel) ELSE msaaLevel
     /\ IF pressed("F1")
          THEN \E r \in CreateFramebuffer(g1, width, height, msaaLevel') :
                 FramebufferBecomes(r, <<>>)
          ELSE /\ gl' = g1
               /\ calls' = <<>>
               /\ UNCHANGED fbVars
     /\ wireframe' = IF pressed("F2") THEN ~wireframe ELSE wireframe
     /\ depthTest' = IF pressed("F4") THEN ~depthTest ELSE depthTest
     /\ vsync' = IF pressed("F5") THEN ~vsync ELSE vsync
     /\ tonemapping' = IF pressed("F6") THEN ~tonemapping ELSE tonemapping
     /\ fov' = FovAfter(fov, key, action)
     /\ camera' = SetProjection(camera, fov', width, height)

\* ------------------------------------------------------------------ start-up
Init ==
  /\ pc = "main"
  /\ numCubes \in NumCubesBuilds
  /\ glfwUp = FALSE /\ window = FALSE /\ glLoaded = FALSE
  /\ width = 0 /\ height = 0
  /\ msaaLevel = MSAA_SAMPLES
  /\ vsync = TRUE /\ depthTest = TRUE /\ wireframe = FALSE /\ tonemapping = TRUE
  /\ fov = DefaultFov
  /\ shouldClose = FALSE
  /\ camera = [fov |-> 0, w |-> 0, h |-> 0]
  /\ fbo = 0 /\ renderTarget = 0 /\ depthStencil = 0
  /\ tex = [n \in TexNames |-> NoObj]
  /\ rb = [n \in RbNames |-> NoObj]
  /\ fb = [n \in FbNames |-> NoFb]
  /\ gl = [drawFbo |-> 0, readFbo |-> 0, depthTest |-> FALSE, multisample |-> TRUE,
           polyLine |-> FALSE, cullFace |-> FALSE, viewport |-> <<0, 0>>]
  /\ programs = FALSE
  /\ geom = [vao |-> FALSE, meshes |-> FALSE, instancingBuffer |-> FALSE,
             transformBlockUBO |-> FALSE]
  /\ loadedTextures = [i \in 1..NumTextures |-> 0]
  /\ cubePositions = <<>>
  /\ transformBlock = [fov |-> 0, w |-> 0, h |-> 0]
  /\ staging = {}
  /\ calls = <<>>
  /\ fbReport = FALSE
  /\ shutDowns = 0
  /\ exitCode = "running"
  /\ leaked = [tex |-> {}, rb |-> {}, fb |-> {}, ubo |-> FALSE]
  /\ failure = "none"
  /\ mouse = [x |-> 0, y |-> 0, prevX |-> 0, prevY |-> 0]
  /\ runB = [tonemapping |-> tonemapping, gl |-> gl, calls |-> <<>>]

\* a faulty variant of TooManyCubes: the capacity check is missing
TooManyCubesUnchecked(n) == FALSE

\* the capacity check of initOpenGL
TooManyCubes(n) == n > MAX_INSTANCES

\* initOpenGL returns false: main goes on to shutDown and return -1
InitFails(why) ==
  /\ failure' = why
  /\ pc' = "abort"
  /\ UNCHANGED <<numCubes, width, height, msaaLevel, vsync, depthTest, wireframe,
                 tonemapping, fov, shouldClose, camera, gl, programs, geom,
                 loadedTextures, cubePositions, transformBlock, staging, calls,
                 shutDowns, exitCode, leaked, mouse>>
  /\ UNCHANGED fbVars

\* initOpenGL()
InitOpenGL ==
  /\ pc = "main"
  /\ \/ /\ InitFails("glfwInit")
        /\ UNCHANGED <<glfwUp, window, glLoaded>>
     \/ /\ InitFails("window")
        /\ glfwUp' = TRUE
        /\ UNCHANGED <<window, glLoaded>>
     \/ /\ InitFails("glad")
        /\ glfwUp' = TRUE /\ window' = TRUE
        /\ UNCHANGED glLoaded
     \/ /\ glfwUp' = TRUE /\ window' = TRUE /\ glLoaded' = TRUE
        /\ \E maxUboSize \in MaxUboSizes :
             IF maxUboSize < expectedUboSize THEN InitFails("uboSize")
             ELSE IF TooManyCubes(numCubes) THEN InitFails("numCubes")
             ELSE /\ ResizeCallback(DefaultWidth, DefaultHeight,
                                    [gl EXCEPT !.cullFace = TRUE, !.depthTest = TRUE])
                  /\ pc' = "compile"
                  /\ UNCHANGED <<numCubes, msaaLevel, vsync, depthTest, wireframe,
                                 tonemapping, fov, shouldClose, programs, geom,
                                 loadedTextures, cubePositions, transformBlock,
                                 staging, shutDowns, exitCode, leaked, failure, mouse>>

\* compileShaders(): a single aggregate boolean
CompileShaders ==
  /\ pc = "compile"
  /\ \E ok \in BOOLEAN :
       /\ pc' = IF ok THEN "geometry" ELSE "abort"
       /\ failure' = IF ok THEN failure ELSE "shaders"
       /\ programs' \in (IF ok THEN {TRUE} ELSE BOOLEAN)
  /\ UNCHANGED <<numCubes, glfwUp, window, glLoaded, width, height, msaaLevel, vsync,
                 depthTest, wireframe, tonemapping, fov, shouldClose, camera, gl,
                 geom, loadedTextures, cubePositions, transformBlock, staging,
                 calls, shutDowns, exitCode, leaked, mouse>>
  /\ UNCHANGED fbVars

\* the pushes of createGeometry: one fixed position, then the loop i = 1..n
PushedPositions(n) == <<0>> \o [i \in 1..n |-> i]

\* createGeometry()
CreateGeometry ==
  /\ pc = "geometry"
  /\ pc' = "textures"
  /\ geom' = [vao |-> TRUE, meshes |-> TRUE, instancingBuffer |-> TRUE,
              transformBlockUBO |-> TRUE]
  /\ cubePositions' = PushedPositions(numCubes)
  /\ UNCHANGED <<numCubes, glfwUp, window, glLoaded, width, height, msaaLevel, vsync,
                 depthTest, wireframe, tonemapping, fov, shouldClose, camera, gl,
                 programs, loadedTextures, transformBlock, staging, calls,
                 shutDowns, exitCode, leaked, failure, mouse>>
  /\ UNCHANGED fbVars

\* the k lowest unused texture names, in creation order
RECURSIVE LowestNames(_, _)
LowestNames(free, k) ==
  IF k = 0 \/ free = {} THEN <<>>
  ELSE <<Min(free)>> \o LowestNames(free \ {Min(free)}, k - 1)

\* loadTextures()
LoadTextures ==
  /\ pc = "textures"
  /\ pc' = "loop"
  /\ loadedTextures' = LowestNames(UnusedTex(tex), NumTextures)
  /\ tex' = [n \in DOMAIN tex |->
               IF \E i \in 1..NumTextures : loadedTextures'[i] = n
               THEN [target |-> "2D", w |-> 0, h |-> 0, samples |-> 0]
               ELSE tex[n]]
  /\ UNCHANGED <<numCubes, glfwUp, window, glLoaded, width, height, msaaLevel, vsync,
                 depthTest, wireframe, tonemapping, fov, shouldClose, camera, gl,
                 programs, geom, cubePositions, transformBlock, staging, calls,
                 shutDowns, exitCode, leaked, failure, mouse, fbo, renderTarget,
                 depthStencil, rb, fb, fbReport>>

\* ------------------------------------------------------------------ mainLoop
\* a faulty variant of WindowShouldClose: an incomplete framebuffer ends the loop
WindowShouldCloseOnReport == shouldClose \/ fbReport

\* glfwWindowShouldClose(mainWindow.handle)
WindowShouldClose == shouldClose

\* while (!glfwWindowShouldClose(...)): the test at the top of an iteration
LoopCheck ==
  /\ pc = "loop"
  /\ pc' = IF WindowShouldClose THEN "shutdown" ELSE "poll"
  /\ calls' = <<>>
  /\ UNCHANGED <<width, height, msaaLevel, vsync, depthTest, wireframe, tonemapping,
                 fov, shouldClose, camera, gl, mouse>>
  /\ UNCHANGED startVars
  /\ UNCHANGED fbVars

\* a faulty variant of CallbacksRun: callbacks are also delivered while a frame is drawn
CallbacksRunInFrame == pc \in {"poll", "cubes"}

\* glfwPollEvents() is the place where GLFW runs the callbacks
CallbacksRun == pc = "poll"

ResizeEvent ==
  /\ CallbacksRun
  /\ \E s \in ResizeSizes : ResizeCallback(s[1], s[2], gl)
  /\ UNCHANGED <<pc, msaaLevel, vsync, depthTest, wireframe, tonemapping, fov,
                 shouldClose, mouse>>
  /\ UNCHANGED startVars

KeyEvent(keys) ==
  /\ CallbacksRun
  /\ \E key \in keys, action \in KeyActions : KeyCallback(key, action)
  /\ UNCHANGED <<pc, width, height, mouse>>
  /\ UNCHANGED startVars

MouseEvent ==
  /\ CallbacksRun
  /\ \E m \in MousePositions : MouseMoveCallback(m[1], m[2])
  /\ UNCHANGED <<pc, width, height, msaaLevel, vsync, depthTest, wireframe,
                 tonemapping, fov, shouldClose, camera, gl>>
  /\ UNCHANGED startVars
  /\ UNCHANGED fbVars

\* glfwPollEvents() returns; processInput(dt)
ProcessInput ==
  /\ pc = "poll"
  /\ pc' = "render"
  /\ mouse' = [mouse EXCEPT !.prevX = mouse.x, !.prevY = mouse.y]
  /\ \E enter \in BOOLEAN :
       camera' = IF enter THEN SetProjection(camera, fov, width, height) ELSE camera
  /\ calls' = <<>>
  /\ UNCHANGED <<width, height, msaaLevel, vsync, depthTest, wireframe, tonemapping,
                 fov, shouldClose, gl>>
  /\ UNCHANGED startVars
  /\ UNCHANGED fbVars

\* ------------------------------------------------------------------ renderScene
\* a faulty variant of ApplyToggles: the depth test is switched off but never on again
ApplyTogglesNoEnable(p, f, dt, level, wf) ==
  [BindFb(p, f) EXCEPT !.depthTest = (p.depthTest /\ dt), !.multisample = (level > 1),
                       !.polyLine = wf]

\* a faulty variant of ApplyToggles: multisampling is left as the last frame left it
ApplyTogglesNoMultisample(p, f, dt, level, wf) ==
  [BindFb(p, f) EXCEPT !.depthTest = dt, !.polyLine = wf]

\* the pipeline state renderScene sets before clearing: the offscreen
\* framebuffer bound, and the three toggles applied
ApplyToggles(p, f, dt, level, wf) ==
  [BindFb(p, f) EXCEPT !.depthTest = dt, !.multisample = (level > 1), !.polyLine = wf]

\* the pipeline state after the presentation step
Presented(p, f, tm) ==
  IF tm THEN [BindFb(p, 0) EXCEPT !.polyLine = FALSE, !.multisample = FALSE,
                                  !.depthTest = FALSE]
  ELSE [p EXCEPT !.drawFbo = 0, !.readFbo = f]

\* the calls of renderScene up to the clear, entered with the pipeline state p
SetupCalls(p, f, dt, level, wf) ==
  <<Call("updateTransformBlock", <<>>, p),
    Op("glBindFramebuffer", <<f>>),
    Op("depthTest", <<B2I(dt)>>),
    Op("multisample", <<B2I(level > 1)>>),
    Op("polygonModeLine", <<B2I(wf)>>),
    Call("glClear", <<>>, ApplyToggles(p, f, dt, level, wf))>>

FloorCalls(p) == <<Call("glDrawElements", <<>>, p)>>

\* the slots of instanceData the loop of updateInstanceData writes
StagingSlots(n) == 0..(n - 1)

\* a faulty variant of CubeCalls: one instanced draw per sample
CubeCallsPerSample(n, level, p) ==
  <<Op("updateInstanceData", <<n>>)>>
    \o [i \in 1..level |-> Call("glDrawElementsInstanced", <<n>>, p)]

\* updateInstanceData() and the instanced draw of the cube batch
CubeCalls(n, level, p) ==
  <<Op("updateInstanceData", <<n>>), Call("glDrawElementsInstanced", <<n>>, p)>>

LightCalls(p) == <<Call("glDrawArrays", <<>>, p)>>

\* the calls of the presentation step
PresentCalls(p, f, tm, level, rt, w, h) ==
  IF tm THEN <<Op("glBindFramebuffer", <<0>>),
               Call("glClear", <<>>, Presented(p, f, tm)),
               Call("tonemap", <<level, rt>>, Presented(p, f, tm))>>
  ELSE <<Call("glBlitFramebuffer", <<w, h>>, Presented(p, f, tm))>>

renderVars == <<width, height, msaaLevel, vsync, depthTest, wireframe, tonemapping,
                fov, shouldClose, camera, mouse, numCubes, glfwUp, window, glLoaded,
                programs, geom, loadedTextures, cubePositions, shutDowns, exitCode,
                leaked, failure>>

\* updateTransformBlock(); bind the framebuffer, apply the toggles, clear
RenderSetup ==
  /\ pc = "render"
  /\ pc' = "floor"
  /\ transformBlock' = camera
  /\ gl' = ApplyToggles(gl, fbo, depthTest, msaaLevel, wireframe)
  /\ calls' = SetupCalls(gl, fbo, depthTest, msaaLevel, wireframe)
  /\ UNCHANGED <<staging>>
  /\ UNCHANGED renderVars
  /\ UNCHANGED fbVars

\* draw the scene floor
DrawFloor ==
  /\ pc = "floor"
  /\ pc' = "cubes"
  /\ calls' = calls \o FloorCalls(gl)
  /\ UNCHANGED <<gl, transformBlock, staging>>
  /\ UNCHANGED renderVars
  /\ UNCHANGED fbVars

\* draw cubes
DrawCubes ==
  /\ pc = "cubes"
  /\ pc' = "light"
  /\ \A i \in StagingSlots(numCubes) : i + 1 \in DOMAIN cubePositions
  /\ staging' = StagingSlots(numCubes)
  /\ calls' = calls \o CubeCalls(numCubes, msaaLevel, gl)
  /\ UNCHANGED <<gl, transformBlock>>
  /\ UNCHANGED renderVars
  /\ UNCHANGED fbVars

\* draw the light
DrawLight ==
  /\ pc = "light"
  /\ pc' = "present"
  /\ calls' = calls \o LightCalls(gl)
  /\ UNCHANGED <<gl, transformBlock, staging>>
  /\ UNCHANGED renderVars
  /\ UNCHANGED fbVars

\* the tonemapping pass, or the blit
Present ==
  /\ pc = "present"
  /\ pc' = "swap"
  /\ gl' = Presented(gl, fbo, tonemapping)
  /\ calls' = calls \o PresentCalls(gl, fbo, tonemapping, msaaLevel, renderTarget,
                                    width, height)
  /\ UNCHANGED <<transformBlock, staging>>
  /\ UNCHANGED renderVars
  /\ UNCHANGED fbVars

\* glfwSwapBuffers(): the end of the iteration
SwapBuffers ==
  /\ pc = "swap"
  /\ pc' = "loop"
  /\ UNCHANGED <<gl, calls, transformBlock, staging>>
  /\ UNCHANGED renderVars
  /\ UNCHANGED fbVars

\* ------------------------------------------------------------------ shutDown
Live(t) == {n \in DOMAIN t : t[n].target # "none"}

\* glDeleteTextures(n, names)
RECURSIVE DeleteTextures(_, _)
DeleteTextures(t, names) ==
  IF names = <<>> THEN t ELSE DeleteTextures(DeleteTex(t, Head(names)), Tail(names))

\* the GL objects of the framebuffer after the three deletes of shutDown
ShutDownTextures(t) == DeleteTex(DeleteTex(t, renderTarget), depthStencil)

ShutDownRenderbuffers(r) == r

ShutDownCalls ==
  <<Op("glDeleteProgram", <<>>), Op("glDeleteBuffers", <<>>),
    Op("glDeleteTextures", <<renderTarget>>),
    Op("glDeleteTextures", <<depthStencil>>),
    Op("glDeleteFramebuffers", <<fbo>>),
    Op("glDeleteVertexArrays", <<>>),
    Op("glDeleteTextures", loadedTextures),
    Op("glfwDestroyWindow", <<>>), Op("glfwTerminate", <<>>)>>

shutVars == <<numCubes, width, height, msaaLevel, vsync, depthTest, wireframe,
              tonemapping, fov, shouldClose, camera, fbo, renderTarget, depthStencil,
              gl, loadedTextures, cubePositions, transformBlock, staging, fbReport,
              failure, mouse>>

\* shutDown(), then main returns
ShutDown ==
  /\ pc \in {"abort", "shutdown"}
  /\ shutDowns' = shutDowns + 1
  /\ \E outcome \in (IF glLoaded THEN {"continue"} ELSE UBOutcomes) :
       IF outcome = "crash"
       THEN /\ pc' = "crashed"
            /\ exitCode' = "killed"
            /\ calls' = <<Op("glDeleteProgram", <<>>)>>
            /\ UNCHANGED <<glfwUp, window, glLoaded, programs, geom, tex, rb, fb, leaked>>
       ELSE LET tex1 == IF glLoaded
                        THEN DeleteTextures(ShutDownTextures(tex), loadedTextures)
                        ELSE tex
                rb1 == IF glLoaded THEN ShutDownRenderbuffers(rb) ELSE rb
                fb1 == IF glLoaded /\ fbo \in DOMAIN fb
                       THEN [fb EXCEPT ![fbo] = NoFb] ELSE fb
            IN /\ pc' = "exited"
               /\ exitCode' = IF pc = "abort" THEN "failure" ELSE "success"
               /\ calls' = ShutDownCalls
               /\ programs' = IF glLoaded THEN FALSE ELSE programs
               /\ geom' = IF glLoaded
                          THEN [geom EXCEPT !.vao = FALSE, !.meshes = FALSE,
                                            !.instancingBuffer = FALSE]
                          ELSE geom
               /\ leaked' = [tex |-> Live(tex1), rb |-> Live(rb1),
                             fb |-> {n \in DOMAIN fb1 : fb1[n].live},
                             ubo |-> geom.transformBlockUBO]
               /\ tex' = [n \in DOMAIN tex |-> NoObj]
               /\ rb' = [n \in DOMAIN rb |-> NoObj]
               /\ fb' = [n \in DOMAIN fb |-> NoFb]
               /\ window' = FALSE
               /\ glLoaded' = FALSE
               /\ glfwUp' = FALSE
  /\ UNCHANGED shutVars

\* ------------------------------------------------------------------ specification
\* the keys delivered while the framebuffer life cycle is explored
LifeKeys == {"ESCAPE", "F1", "F6", "W"}

Next ==
  \/ InitOpenGL /\ UNCHANGED runB
  \/ CompileShaders /\ UNCHANGED runB
  \/ CreateGeometry /\ UNCHANGED runB
  \/ LoadTextures /\ UNCHANGED runB
  \/ LoopCheck /\ UNCHANGED runB
  \/ ResizeEvent /\ UNCHANGED runB
  \/ KeyEvent(LifeKeys) /\ UNCHANGED runB
  \/ ProcessInput /\ UNCHANGED runB
  \/ RenderSetup /\ UNCHANGED runB
  \/ DrawFloor /\ UNCHANGED runB
  \/ DrawCubes /\ UNCHANGED runB
  \/ DrawLight /\ UNCHANGED runB
  \/ Present /\ UNCHANGED runB
  \/ SwapBuffers /\ UNCHANGED runB
  \/ ShutDown /\ UNCHANGED runB

Spec == Init /\ [][Next]_vars

\* ------------------------------------------------------------------ two runs
\* The program run twice on the same key events, except that F6 presses reach
\* either run alone. Everything but the tonemapping flag, the pipeline state
\* and the calls is common to the two runs.
PairKeys == {"ESCAPE", "F1", "F2", "F4", "W"}

\* an event both runs receive
PairKeyEvent ==
  /\ CallbacksRun
  /\ \E key \in PairKeys, action \in KeyActions :
       /\ KeyCallback(key, action)
       /\ runB' = [runB EXCEPT !.gl = GlAfterKey(runB.gl, key, action), !.calls = <<>>]
  /\ UNCHANGED <<pc, width, height, mouse>>
  /\ UNCHANGED startVars

\* F6 pressed in the first run only
F6InFirstRun ==
  /\ CallbacksRun
  /\ KeyCallback("F6", "press")
  /\ UNCHANGED <<pc, width, height, mouse, runB>>
  /\ UNCHANGED startVars

\* F6 pressed in the second run only
F6InSecondRun ==
  /\ CallbacksRun
  /\ runB' = [runB EXCEPT !.tonemapping = ~runB.tonemapping, !.calls = <<>>]
  /\ UNCHANGED <<pc, numCubes, glfwUp, window, glLoaded, width, height, msaaLevel,
                 vsync, depthTest, wireframe, tonemapping, fov, shouldClose, camera,
                 fbo, renderTarget, depthStencil, tex, rb, fb, gl, programs, geom,
                 loadedTextures, cubePositions, transformBlock, staging, calls,
                 fbReport, shutDowns, exitCode, leaked, failure, mouse>>

NextPair ==
  \/ InitOpenGL /\ runB' = [runB EXCEPT !.gl = gl']
  \/ CompileShaders /\ UNCHANGED runB
  \/ CreateGeometry /\ UNCHANGED runB
  \/ LoadTextures /\ UNCHANGED runB
  \/ LoopCheck /\ runB' = [runB EXCEPT !.calls = <<>>]
  \/ PairKeyEvent
  \/ F6InFirstRun
  \/ F6InSecondRun
  \/ ProcessInput /\ runB' = [runB EXCEPT !.calls = <<>>]
  \/ RenderSetup
       /\ runB' = [runB EXCEPT
            !.gl = ApplyToggles(runB.gl, fbo, depthTest, msaaLevel, wireframe),
            !.calls = SetupCalls(runB.gl, fbo, depthTest, msaaLevel, wireframe)]
  \/ DrawFloor /\ runB' = [runB EXCEPT !.calls = runB.calls \o FloorCalls(runB.gl)]
  \/ DrawCubes
       /\ runB' = [runB EXCEPT
            !.calls = runB.calls \o CubeCalls(numCubes, msaaLevel, runB.gl)]
  \/ DrawLight /\ runB' = [runB EXCEPT !.calls = runB.calls \o LightCalls(runB.gl)]
  \/ Present
       /\ runB' = [runB EXCEPT
            !.gl = Presented(runB.gl, fbo, runB.tonemapping),
            !.calls = runB.calls \o PresentCalls(runB.gl, fbo, runB.tonemapping,
                                                 msaaLevel, renderTarget, width, height)]
  \/ SwapBuffers /\ UNCHANGED runB
  \/ ShutDown /\ UNCHANGED runB

SpecPair == Init /\ [][NextPair]_vars

\* ------------------------------------------------------------------ toggles
\* the keys delivered while the four rendering toggles are explored
ToggleSliceKeys == {"ESCAPE", "F1", "F2", "F4", "F6"}

\* a resize event of this slice: the window is resized to MaxDim x MaxDim
ToggleResizeEvent ==
  /\ CallbacksRun
  /\ ResizeCallback(MaxDim, MaxDim, gl)
  /\ UNCHANGED <<pc, msaaLevel, vsync, depthTest, wireframe, tonemapping, fov,
                 shouldClose, mouse>>
  /\ UNCHANGED startVars

NextToggles ==
  \/ InitOpenGL /\ UNCHANGED runB
  \/ CompileShaders /\ UNCHANGED runB
  \/ CreateGeometry /\ UNCHANGED runB
  \/ LoadTextures /\ UNCHANGED runB
  \/ LoopCheck /\ UNCHANGED runB
  \/ ToggleResizeEvent /\ UNCHANGED runB
  \/ MouseEvent /\ UNCHANGED runB
  \/ KeyEvent(ToggleSliceKeys) /\ UNCHANGED runB
  \/ ProcessInput /\ UNCHANGED runB
  \/ RenderSetup /\ UNCHANGED runB
  \/ DrawFloor /\ UNCHANGED runB
  \/ DrawCubes /\ UNCHANGED runB
  \/ DrawLight /\ UNCHANGED runB
  \/ Present /\ UNCHANGED runB
  \/ SwapBuffers /\ UNCHANGED runB
  \/ ShutDown /\ UNCHANGED runB

SpecToggles == Init /\ [][NextToggles]_vars

\* ------------------------------------------------------------------ zoom
\* the keys delivered while the field of view is explored
ZoomSliceKeys == {"ESCAPE", "KP_ADD", "EQUAL", "KP_SUBTRACT", "MINUS", "BACKSPACE"}

NextZoom ==
  \/ InitOpenGL /\ UNCHANGED runB
  \/ CompileShaders /\ UNCHANGED runB
  \/ CreateGeometry /\ UNCHANGED runB
  \/ LoadTextures /\ UNCHANGED runB
  \/ LoopCheck /\ UNCHANGED runB
  \/ KeyEvent(ZoomSliceKeys) /\ UNCHANGED runB
  \/ ProcessInput /\ UNCHANGED runB
  \/ RenderSetup /\ UNCHANGED runB
  \/ DrawFloor /\ UNCHANGED runB
  \/ DrawCubes /\ UNCHANGED runB
  \/ DrawLight /\ UNCHANGED runB
  \/ Present /\ UNCHANGED runB
  \/ SwapBuffers /\ UNCHANGED runB
  \/ ShutDown /\ UNCHANGED runB

SpecZoom == Init /\ [][NextZoom]_vars

\* ------------------------------------------------------------------ properties
HasOp(c, op) == \E i \in DOMAIN c : c[i].op = op

CountOp(c, op) == Cardinality({i \in DOMAIN c : c[i].op = op})

\* every call named a comes before every call named b
Before(c, a, b) == \A i, j \in DOMAIN c : (c[i].op = a /\ c[j].op = b) => i < j

Loaded == {loadedTextures[i] : i \in DOMAIN loadedTextures}

\* createFramebuffer has run and the GL context still exists
FramebufferCreated == fbo # 0 /\ window

FramePcs == {"render", "floor", "cubes", "light", "present", "swap"}

\* C1: between createFramebuffer calls exactly one colour texture, one depth
\* renderbuffer and one framebuffer object made by createFramebuffer are live,
\* however often the framebuffer was recreated, and within a call the old
\* texture and renderbuffer are deleted before the new ones are generated.
C1_NoLeakOnRecreation ==
  FramebufferCreated =>
    /\ Live(tex) \ Loaded = {renderTarget}
    /\ Live(rb) = {depthStencil}
    /\ {n \in DOMAIN fb : fb[n].live} = {fbo}
    /\ Before(calls, "glDeleteTextures", "glGenTextures")
    /\ Before(calls, "glDeleteRenderbuffers", "glGenRenderbuffers")

\* a recreation: the old pair was deleted and a new pair generated
C1_Witness ==
  /\ FramebufferCreated /\ pc = "poll"
  /\ HasOp(calls, "glDeleteTextures") /\ HasOp(calls, "glGenTextures")
  /\ HasOp(calls, "glDeleteRenderbuffers") /\ HasOp(calls, "glGenRenderbuffers")
  /\ Live(tex) \ Loaded = {renderTarget}

AttachmentsMatch ==
  /\ fb[fbo].live /\ fb[fbo].color = renderTarget /\ fb[fbo].depth = depthStencil
  /\ tex[renderTarget] = [target |-> IF msaaLevel > 1 THEN "2DMS" ELSE "2D",
                          w |-> width, h |-> height, samples |-> msaaLevel]
  /\ rb[depthStencil] = [target |-> "RB", w |-> width, h |-> height,
                         samples |-> msaaLevel]

\* both attachments are generated anew and given storage of the new size and
\* sample count by the calls c
FullReallocation(c, w, h, level) ==
  /\ HasOp(c, "glGenTextures") /\ HasOp(c, "glGenRenderbuffers")
  /\ \E i \in DOMAIN c : c[i].op = "texStorage" /\ Tail(c[i].args) = <<w, h, level>>
  /\ \E i \in DOMAIN c : c[i].op = "rbStorage" /\ Tail(c[i].args) = <<w, h, level>>

C3_InstanceCapacity ==
  /\ numCubes > MAX_INSTANCES =>
       (pc \in {"main", "abort", "exited", "crashed"} /\ staging = {})
  /\ numCubes <= MAX_INSTANCES =>
       /\ staging \subseteq 0..(numCubes - 1)
       /\ staging \subseteq 0..(MAX_INSTANCES - 1)
       /\ pc \in {"light", "present", "swap"} =>
            /\ staging = 0..(numCubes - 1)
            /\ \E i \in DOMAIN calls :
                 calls[i].op = "updateInstanceData" /\ calls[i].args = <<numCubes>>

\* a frame whose instance data was written and uploaded
C3_Witness ==
  /\ pc = "swap" /\ numCubes = DefaultNumCubes
  /\ staging = 0..(DefaultNumCubes - 1)
  /\ HasOp(calls, "updateInstanceData")

\* C5: every frame issues exactly one instanced draw of the cube batch, with
\* numCubes instances, whatever msaaLevel is.
C5_OneInstancedDraw ==
  /\ pc \in {"render", "floor", "cubes"} => CountOp(calls, "glDrawElementsInstanced") = 0
  /\ pc \in {"light", "present", "swap"} =>
       /\ CountOp(calls, "glDrawElementsInstanced") = 1
       /\ \A i \in DOMAIN calls :
            calls[i].op = "glDrawElementsInstanced" => calls[i].args = <<numCubes>>

\* a finished frame drawn without multisampling
C5_Witness ==
  /\ pc = "swap" /\ msaaLevel = 1
  /\ CountOp(calls, "glDrawElementsInstanced") = 1

NothingLeaked == leaked = [tex |-> {}, rb |-> {}, fb |-> {}, ubo |-> FALSE]

\* C6: after a fatal initialisation error createGeometry, loadTextures and
\* the main loop are never entered, shutDown runs exactly once, the process
\* exits with a failure status and everything acquired has been released.
C6_AbortReleasesEverything ==
  failure # "none" =>
    /\ pc \in {"abort", "exited"}
    /\ cubePositions = <<>> /\ Loaded = {0} /\ staging = {}
    /\ pc = "abort" => shutDowns = 0
    /\ pc = "exited" =>
         /\ shutDowns = 1
         /\ exitCode = "failure"
         /\ ~window /\ ~glfwUp /\ ~programs
         /\ NothingLeaked

\* C7: after shutDown the colour texture, the depth renderbuffer and the
\* framebuffer object were each released by the delete call of their own
\* kind, and no texture was deleted under the renderbuffer's name.
C7_FramebufferReleasedAtShutdown ==
  (pc = "exited" /\ fbo # 0) =>
    /\ \E i \in DOMAIN calls :
         calls[i].op = "glDeleteTextures" /\ calls[i].args = <<renderTarget>>
    /\ \E i \in DOMAIN calls :
         calls[i].op = "glDeleteRenderbuffers" /\ calls[i].args = <<depthStencil>>
    /\ \E i \in DOMAIN calls :
         calls[i].op = "glDeleteFramebuffers" /\ calls[i].args = <<fbo>>
    /\ \A i \in DOMAIN calls :
         (calls[i].op = "glDeleteTextures" /\ Len(calls[i].args) = 1)
           => calls[i].args = <<renderTarget>>
    /\ leaked.tex = {} /\ leaked.rb = {} /\ leaked.fb = {}

\* C8: no colour or depth storage is allocated with a width or height that is
\* zero or negative.
C8_PositiveDimensions ==
  \A i \in DOMAIN calls :
    calls[i].op \in {"texStorage", "rbStorage"} =>
      (calls[i].args[2] > 0 /\ calls[i].args[3] > 0)

Incomplete ==
  FramebufferCreated /\ ~FramebufferComplete(tex[renderTarget], rb[depthStencil])

\* C9: when the completeness check of createFramebuffer fails the failure is
\* reported, the new colour and depth handles are kept as they are, the exit
\* flag is not set by it, and the main loop goes on to draw frames.
C9_IncompletenessIsNotFatal ==
  /\ [](Incomplete =>
          /\ fbReport
          /\ glIsTexture(tex, renderTarget) /\ glIsRenderbuffer(rb, depthStencil)
          /\ AttachmentsMatch)
  /\ [][(HasOp(calls', "printf") /\ calls' # calls) =>
          (shouldClose' = shouldClose /\ pc' = pc)]_vars
  /\ [][(pc = "loop" /\ ~shouldClose) => pc' = "poll"]_vars
  /\ [][(pc \in {"poll"} \cup FramePcs /\ Incomplete /\ pc' # pc) =>
          pc' \in {"loop"} \cup FramePcs]_vars

\* a frame drawn to its end with an incomplete framebuffer
C9_Witness == pc = "swap" /\ Incomplete /\ fbReport /\ ~shouldClose

FirstOp(c, op) == Min({i \in DOMAIN c : c[i].op = op})

\* the calls of a finished frame are in program order
FrameInOrder(c) ==
  /\ Before(c, "updateTransformBlock", "glDrawElements")
  /\ Before(c, "updateTransformBlock", "glDrawElementsInstanced")
  /\ Before(c, "updateTransformBlock", "glDrawArrays")
  /\ Before(c, "updateInstanceData", "glDrawElementsInstanced")
  /\ \A d \in {"glDrawElements", "glDrawElementsInstanced", "glDrawArrays"} :
       /\ CountOp(c, d) = 1
       /\ Before(c, d, "tonemap") /\ Before(c, d, "glBlitFramebuffer")
  /\ CountOp(c, "updateTransformBlock") = 1 /\ CountOp(c, "updateInstanceData") = 1
  /\ CountOp(c, "tonemap") + CountOp(c, "glBlitFramebuffer") = 1

\* what the callbacks can change
FrameInputs == <<width, height, msaaLevel, vsync, depthTest, wireframe, tonemapping,
                 fov, shouldClose, camera, fbo, renderTarget, depthStencil, tex, rb, fb>>

\* C10: within a frame the transform block update precedes the three scene
\* draws, the instance buffer update precedes the instanced draw, the
\* presentation follows the scene draws, and no callback runs between the
\* start of renderScene and the buffer swap.
C10_FrameProgramOrder ==
  /\ [](pc = "swap" => FrameInOrder(calls))
  /\ [](pc \in {"floor", "cubes", "light", "present", "swap"} => transformBlock = camera)
  /\ [][(pc \in FramePcs) => (FrameInputs' = FrameInputs)]_vars

\* a frame finished after a resize changed the projection
C10_Witness ==
  /\ pc = "swap" /\ FrameInOrder(calls)
  /\ width = MaxDim /\ transformBlock = camera

\* the calls issued against the offscreen framebuffer: from the bind up to
\* the draw of the light
SceneCalls(c) == SubSeq(c, 2, FirstOp(c, "glDrawArrays"))

\* what the two runs have in common
Common == <<pc, width, height, msaaLevel, depthTest, wireframe, fbo, renderTarget,
            depthStencil, tex, rb, fb, numCubes, shouldClose, transformBlock, staging>>

\* C4: two runs fed the same events except for F6 presses issue, in every
\* frame, the same calls against the offscreen framebuffer under the same
\* pipeline state; only the presentation differs.
C4_TonemappingLeavesSceneAlone ==
  /\ [](pc \in {"floor", "cubes", "light", "present"} =>
          (Tail(calls) = Tail(runB.calls) /\ gl = runB.gl))
  /\ [](pc = "swap" => SceneCalls(calls) = SceneCalls(runB.calls))
  /\ [][tonemapping' # tonemapping => Common' = Common]_vars

\* a finished frame of two runs that present differently, and whose previous
\* frames had left different pipeline states behind
C4_Witness ==
  /\ pc = "swap"
  /\ tonemapping # runB.tonemapping
  /\ calls[1].pipe # runB.calls[1].pipe
  /\ calls # runB.calls
  /\ SceneCalls(calls) = SceneCalls(runB.calls)

DrawOps == {"glDrawElements", "glDrawElementsInstanced", "glDrawArrays"}

\* the pipeline state p has the offscreen framebuffer bound and equals the toggles
FollowsToggles(p) ==
  /\ fbo # 0 /\ p.drawFbo = fbo /\ p.readFbo = fbo
  /\ p.depthTest = depthTest
  /\ p.multisample = (msaaLevel > 1)
  /\ p.polyLine = wireframe

\* C11: at each of the three scene draws of a frame (floor, cubes, light) the
\* offscreen framebuffer is bound, the depth test is enabled iff depthTest,
\* multisampling iff msaaLevel > 1 and the polygon mode is line iff wireframe,
\* whatever state the previous frame's presentation left behind.
C11_DrawsFollowToggles ==
  /\ \A i \in DOMAIN calls : calls[i].op \in DrawOps => FollowsToggles(calls[i].pipe)
  /\ pc \in {"floor", "cubes", "light"} => FollowsToggles(gl)
  /\ pc \in {"present", "swap"} => \A d \in DrawOps : CountOp(calls, d) = 1

\* a finished frame with all three toggles on, entered with the state a
\* tonemap pass leaves: window framebuffer bound, depth test and
\* multisampling disabled, solid fill
C11_Witness ==
  /\ pc = "swap"
  /\ depthTest /\ msaaLevel > 1 /\ wireframe
  /\ calls[1].op = "updateTransformBlock"
  /\ calls[1].pipe.drawFbo = 0 /\ calls[1].pipe.readFbo = 0
  /\ ~calls[1].pipe.depthTest /\ ~calls[1].pipe.multisample /\ ~calls[1].pipe.polyLine
  /\ \A d \in DrawOps : \E i \in DOMAIN calls :
       calls[i].op = d /\ FollowsToggles(calls[i].pipe)

\* the four rendering toggles
Toggles == <<wireframe, depthTest, tonemapping, msaaLevel>>

GeometryCreated == pc \in {"textures", "loop", "poll", "shutdown"} \cup FramePcs

\* once filled, the position list is not assigned again
PositionsImmutable == [][cubePositions # <<>> => cubePositions' = cubePositions]_vars

\* C13: the cube position list is filled once, by createGeometry, with
\* exactly numCubes entries, one per rendered instance, and no later
\* operation modifies it.
C13_CubePositionsFixed ==
  /\ [](GeometryCreated => Len(cubePositions) = numCubes)
  /\ PositionsImmutable

\* every key keyCallback tests for, and one it does not
AllKeys == ToggleKeys \cup ZoomSliceKeys

\* what a key event may change
KeyState == <<vsync, depthTest, wireframe, tonemapping, gl.cullFace, msaaLevel, fov,
              shouldClose>>

\* C14: a key event whose action is a release or a repeat, for any key,
\* leaves the toggles, msaaLevel, fov and the exit flag unchanged and does
\* not recreate the framebuffer.
C14_OnlyPressesChangeState ==
  [][\A key \in AllKeys, action \in KeyActions \ {"press"} :
       (CallbacksRun /\ KeyCallback(key, action)) =>
         (KeyState' = KeyState /\ UNCHANGED fbVars)]_vars

\* C15: starting from 45 the field of view stays within 5..179 under any
\* sequence of key events; a zoom in at 5 leaves it at 5, a zoom out at 179
\* leaves it at 179, and a press of Backspace sets it to 45.
C15_FovRange ==
  /\ [](pc = "main" => fov = DefaultFov)
  /\ [](5 <= fov /\ fov <= 179)
  /\ [][\A key \in AllKeys, action \in KeyActions :
          (fov = 5 /\ ZoomInKey(key, action) /\ CallbacksRun /\ KeyCallback(key, action))
            => fov' = 5]_vars
  /\ [][\A key \in AllKeys, action \in KeyActions :
          (fov = 179 /\ ZoomOutKey(key, action) /\ CallbacksRun /\ KeyCallback(key, action))
            => fov' = 179]_vars
  /\ [][(CallbacksRun /\ KeyCallback("BACKSPACE", "press")) => fov' = DefaultFov]_vars

\* both ends of the range: a frame was drawn with the field of view at 5,
\* and the key events of one poll then took it up to 179
C15_Witness ==
  /\ pc = "poll"
  /\ transformBlock.fov = 5
  /\ fov = 179 /\ camera.fov = 179
====
